---------------------------- MODULE Spec2Model ----------------------------
(***************************************************************************)
(* Model of jrwagz/compare_power_costs.                                    *)
(*                                                                         *)
(*   src/compare_power_costs.py  - peak classifier, block / EV tariffs,    *)
(*                                 monthly aggregator, CSV ingestion       *)
(*   src/current_peak_status.py  - peak-change forecaster                  *)
(*                                                                         *)
(* Three programs are modelled over one set of variables:                  *)
(*   SpecFc     find_next_peak_change on one starting datetime             *)
(*   Spec       many_month_usage_summary_from_hourly_entries on one list   *)
(*   SpecCsv    get_hourly_usage_entries_from_rmp_csvs on one file list    *)
(*                                                                         *)
(* Number representation.  Python floats are modelled as exact decimals:   *)
(* usage is a whole number of kWh, money is a whole number of 1e-10 USD    *)
(* held as two limbs <<hi, lo>> = hi * 10^6 + lo (the rate constants have  *)
(* ten decimals and the products exceed 32 bits).  Binary rounding error   *)
(* of float arithmetic is outside the model.                               *)
(***************************************************************************)
EXTENDS Integers, Sequences, FiniteSets, TLC

VARIABLES
    \* ---- current_peak_status.find_next_peak_change ----
    date_object,      \* the argument
    initial_peak,     \* local, line 58 (FALSE until line 58 assigns it)
    iter_datetime,    \* local, lines 65-73; Unbound until assigned
    fc_pc,            \* "call" | "loop" | "returned" | "raised"
    fc_result,        \* the returned timedelta
    fc_error,         \* the exception that left the function
    \* ---- compare_power_costs.many_month_usage_summary_from_hourly_entries ----
    hourly_entries,   \* the argument
    idx,              \* number of entries folded so far
    month_sums,       \* dict month_key -> record
    month_keys,       \* the keys of month_sums in insertion (iteration) order
    last,             \* locals of the latest iteration of the first loop
    overall,          \* overall_* accumulators of the finalization loop
    fin_idx,          \* number of months the finalization loop has completed
    pc,               \* "fold" | "finalize" | "returned" | "raised"
    error,            \* the exception that left the function
    \* ---- compare_power_costs.get_hourly_usage_entries_from_rmp_csvs ----
    csv_files,        \* the argument
    file_idx,         \* number of files iterated so far
    hourly_usage_entries,
    warnings,         \* files a warning was logged for
    csv_pc,           \* "loop" | "returned" | "raised"
    csv_error

fcVars  == <<date_object, initial_peak, iter_datetime, fc_pc, fc_result, fc_error>>
aggVars == <<hourly_entries, idx, month_sums, month_keys, last, overall, fin_idx, pc, error>>
csvVars == <<csv_files, file_idx, hourly_usage_entries, warnings, csv_pc, csv_error>>
vars    == <<fcVars, aggVars, csvVars>>

\* Python's None, and a local name that has no binding yet
None    == [none |-> TRUE]
Unbound == [unbound |-> TRUE]

\* an exception that propagated out of a function
Raised(type) == [exception |-> type]

(***************************************************************************)
(* datetime: the proleptic Gregorian calendar of Python's datetime.        *)
(***************************************************************************)
DateTime(y, m, d, h, mi, s, us) ==
    [year |-> y, month |-> m, day |-> d, hour |-> h,
     minute |-> mi, second |-> s, microsecond |-> us]

IsLeap(y) == (y % 4 = 0) /\ ((y % 100 # 0) \/ (y % 400 = 0))

DaysInMonth(y, m) ==
    IF m = 2 THEN (IF IsLeap(y) THEN 29 ELSE 28)
    ELSE IF m \in {4, 6, 9, 11} THEN 30 ELSE 31

RECURSIVE DaysBeforeMonth(_, _)
DaysBeforeMonth(y, m) ==
    IF m = 1 THEN 0 ELSE DaysBeforeMonth(y, m - 1) + DaysInMonth(y, m - 1)

DaysBeforeYear(y) ==
    LET y1 == y - 1 IN y1 * 365 + (y1 \div 4) - (y1 \div 100) + (y1 \div 400)

ToOrdinal(dt) == DaysBeforeYear(dt.year) + DaysBeforeMonth(dt.year, dt.month) + dt.day

\* datetime.weekday(): Monday = 0 ... Sunday = 6
Weekday(dt) == (ToOrdinal(dt) + 6) % 7

\* dt + timedelta(hours=1)
AddHour(dt) ==
    IF dt.hour < 23 THEN [dt EXCEPT !.hour = dt.hour + 1]
    ELSE IF dt.day < DaysInMonth(dt.year, dt.month)
         THEN [dt EXCEPT !.hour = 0, !.day = dt.day + 1]
    ELSE IF dt.month < 12
         THEN [dt EXCEPT !.hour = 0, !.day = 1, !.month = dt.month + 1]
    ELSE [dt EXCEPT !.hour = 0, !.day = 1, !.month = 1, !.year = dt.year + 1]

\* dt.replace(minute=0, second=0, microsecond=0)
ReplaceToHour(dt) == [dt EXCEPT !.minute = 0, !.second = 0, !.microsecond = 0]

\* a - b as a timedelta (days, seconds, microseconds), normalised as Python
\* does: 0 <= seconds < 86400, 0 <= microseconds < 10^6
TimeDelta(a, b) ==
    LET secA  == a.hour * 3600 + a.minute * 60 + a.second
        secB  == b.hour * 3600 + b.minute * 60 + b.second
        us0   == a.microsecond - b.microsecond
        carry == IF us0 < 0 THEN 1 ELSE 0
        us    == us0 + carry * 1000000
        sec0  == (ToOrdinal(a) - ToOrdinal(b)) * 86400 + secA - secB - carry
    IN  [days |-> sec0 \div 86400, seconds |-> sec0 % 86400, microseconds |-> us]

(***************************************************************************)
(* RockyMountainPowerHolidays: the eight holidays the class keeps, with    *)
(* the observed-day shift (Saturday -> Friday before, Sunday -> Monday     *)
(* after); `date_object in rmp_holidays` looks at the date only.           *)
(***************************************************************************)
FixedHolidays == { <<1, 1>>, <<7, 4>>, <<7, 24>>, <<12, 25>> }

RockyMountainPowerHolidays(dt) ==
    LET m == dt.month  d == dt.day  wd == Weekday(dt) IN
    \/ <<m, d>> \in FixedHolidays
    \/ wd = 0 /\ <<m, d - 1>> \in FixedHolidays          \* Sunday holiday observed Monday
    \/ wd = 4 /\ <<m, d + 1>> \in FixedHolidays          \* Saturday holiday observed Friday
    \/ wd = 4 /\ m = 12 /\ d = 31                        \* New Year's Day on a Saturday
    \/ m = 2  /\ wd = 0 /\ d \in 15..21                  \* Presidents' Day
    \/ m = 5  /\ wd = 0 /\ d \in 25..31                  \* Memorial Day
    \/ m = 9  /\ wd = 0 /\ d \in 1..7                    \* Labor Day
    \/ m = 11 /\ wd = 3 /\ d \in 22..28                  \* Thanksgiving Day

(***************************************************************************)
(* compare_power_costs.is_peak_hour                                        *)
(***************************************************************************)
is_peak_hour_no_holiday(dt) ==
    LET summer_months == {5, 6, 7, 8, 9}
        peak_hours == IF dt.month \in summer_months
                      THEN {15, 16, 17, 18, 19}
                      ELSE {8, 9, 15, 16, 17, 18, 19}
        is_weekday == Weekday(dt) \in 0..4
    IN  is_weekday /\ dt.hour \in peak_hours

is_peak_hour_june_summer(dt) ==
    LET summer_months == {6, 7, 8, 9}
        peak_hours == IF dt.month \in summer_months
                      THEN {15, 16, 17, 18, 19}
                      ELSE {8, 9, 15, 16, 17, 18, 19}
        is_weekday == Weekday(dt) \in 0..4
        is_holiday == RockyMountainPowerHolidays(dt)
        peak_day   == is_weekday /\ ~is_holiday
    IN  peak_day /\ dt.hour \in peak_hours

is_peak_hour(dt) ==
    LET usage_month == dt.month
        usage_hour  == dt.hour
        summer_months == {5, 6, 7, 8, 9}
        peak_hours == IF usage_month \in summer_months
                      THEN {15, 16, 17, 18, 19}
                      ELSE {8, 9, 15, 16, 17, 18, 19}
        is_weekday == Weekday(dt) \in 0..4
        is_holiday == RockyMountainPowerHolidays(dt)
        peak_day   == is_weekday /\ ~is_holiday
    IN  peak_day /\ usage_hour \in peak_hours

(***************************************************************************)
(* current_peak_status.find_next_peak_change                               *)
(***************************************************************************)
StartYear == 2024

\* sub-hour parts <<minute, second, microsecond>> of the starting datetimes:
\* every hour of every day starts aligned and just before the next hour,
\* the first SubHourDays days of each month also start at the other parts
SubHoursAll  == { <<0, 0, 0>>, <<59, 59, 999999>> }
SubHoursMore == { <<30, 0, 0>>, <<0, 1, 0>>, <<0, 0, 1>> }
SubHourDays  == 2

StartDateTimes ==
    { DateTime(StartYear, m, d, h, sh[1], sh[2], sh[3]) :
        m \in 1..12, d \in 1..31, h \in 0..23, sh \in SubHoursAll }
    \cup
    { DateTime(StartYear, m, d, h, sh[1], sh[2], sh[3]) :
        m \in 1..12, d \in 1..SubHourDays, h \in 0..23, sh \in SubHoursMore }

HourAligned(dt) == dt.minute = 0 /\ dt.second = 0 /\ dt.microsecond = 0

IdleAgg ==
    /\ hourly_entries = <<>> /\ idx = 0 /\ month_sums = <<>> /\ month_keys = <<>>
    /\ last = None /\ overall = None /\ fin_idx = 0 /\ pc = "idle" /\ error = None

IdleCsv ==
    /\ csv_files = <<>> /\ file_idx = 0 /\ hourly_usage_entries = <<>>
    /\ warnings = <<>> /\ csv_pc = "idle" /\ csv_error = None

IdleFc ==
    /\ date_object = None /\ initial_peak = FALSE /\ iter_datetime = Unbound
    /\ fc_pc = "idle" /\ fc_result = None /\ fc_error = None

InitFc ==
    /\ date_object \in { dt \in StartDateTimes : dt.day <= DaysInMonth(dt.year, dt.month) }
    /\ initial_peak = FALSE
    /\ iter_datetime = Unbound
    /\ fc_pc = "call"
    /\ fc_result = None
    /\ fc_error = None
    /\ IdleAgg
    /\ IdleCsv

\* lines 58-67: the initial status and the conditional first advance
first_iter_datetime(dt) == AddHour(ReplaceToHour(dt))

FcEnter ==
    /\ fc_pc = "call"
    /\ initial_peak' = is_peak_hour(date_object)
    /\ iter_datetime' = IF ~HourAligned(date_object)
                        THEN first_iter_datetime(date_object)
                        ELSE iter_datetime
    /\ fc_pc' = "loop"
    /\ UNCHANGED <<date_object, fc_result, fc_error, aggVars, csvVars>>

\* line 70 with iter_datetime never assigned: UnboundLocalError
FcUnbound ==
    /\ fc_pc = "loop"
    /\ iter_datetime = Unbound
    /\ fc_pc' = "raised"
    /\ fc_error' = Raised("UnboundLocalError")
    /\ UNCHANGED <<date_object, initial_peak, iter_datetime, fc_result, aggVars, csvVars>>

\* lines 69-73: one iteration of the while loop
FcWhileBody ==
    /\ fc_pc = "loop"
    /\ iter_datetime # Unbound
    /\ iter_datetime.year <= StartYear + 1
    /\ is_peak_hour(iter_datetime) = initial_peak
    /\ iter_datetime' = AddHour(iter_datetime)
    /\ UNCHANGED <<date_object, initial_peak, fc_pc, fc_result, fc_error, aggVars, csvVars>>

\* line 75: the loop condition is false, return
find_next_peak_change_result_from_floor(it, dt) == TimeDelta(it, ReplaceToHour(dt))

find_next_peak_change_result(it, dt) == TimeDelta(it, dt)

FcReturn ==
    /\ fc_pc = "loop"
    /\ iter_datetime # Unbound
    /\ is_peak_hour(iter_datetime) # initial_peak
    /\ fc_result' = find_next_peak_change_result(iter_datetime, date_object)
    /\ fc_pc' = "returned"
    /\ UNCHANGED <<date_object, initial_peak, iter_datetime, fc_error, aggVars, csvVars>>

NextFc == FcEnter \/ FcUnbound \/ FcWhileBody \/ FcReturn

SpecFc == InitFc /\ [][NextFc]_vars /\ WF_vars(NextFc)

(***************************************************************************)
(* Decimal arithmetic.  Money m = <<hi, lo>> stands for hi * 10^6 + lo     *)
(* units of 1e-10 USD, 0 <= lo < 10^6.                                     *)
(***************************************************************************)
Limb == 10^6

Zero == <<0, 0>>

\* usage * rate, usage a whole number of kWh
MulRate(usage, rate) ==
    LET l == usage * rate[2] IN <<usage * rate[1] + (l \div Limb), l % Limb>>

MoneyAdd(a, b) ==
    LET l == a[2] + b[2] IN <<a[1] + b[1] + (l \div Limb), l % Limb>>

MoneyLeq(a, b) == a[1] < b[1] \/ (a[1] = b[1] /\ a[2] <= b[2])

\* a - b for b <= a
MoneySub(a, b) ==
    IF a[2] >= b[2] THEN <<a[1] - b[1], a[2] - b[2]>>
    ELSE <<a[1] - b[1] - 1, a[2] + Limb - b[2]>>

\* round(m, 3) counted in thousandths of a USD (1e7 units), ties to even
RoundMills(m) ==
    LET q   == m[1] \div 10
        rem == (m[1] % 10) * Limb + m[2]
        half == 5 * Limb
    IN  IF rem > half \/ (rem = half /\ q % 2 = 1) THEN q + 1 ELSE q

\* round(m, 3) as money
Round3(m) == <<RoundMills(m) * 10, 0>>

\* round(a - b, 3) in thousandths of a USD, signed
RoundDifference(a, b) ==
    IF MoneyLeq(b, a) THEN RoundMills(MoneySub(a, b)) ELSE 0 - RoundMills(MoneySub(b, a))

\* the outcome of an expression: a value, or an exception raised
Value(v)  == [raised |-> FALSE, value |-> v]
Raise(ex) == [raised |-> TRUE, exception |-> ex]

\* round(100 * (kWh - peak) / kWh, 3) in thousandths of a percent, ties to
\* even; the division raises ZeroDivisionError for kWh = 0
off_peak_percent_zero_guarded(kWh, peak) ==
    IF kWh = 0 THEN Value(0)
    ELSE LET n == 100000 * (kWh - peak)
             q == n \div kWh
             r == n % kWh
         IN  Value(IF 2 * r > kWh \/ (2 * r = kWh /\ q % 2 = 1) THEN q + 1 ELSE q)

off_peak_percent(kWh, peak) ==
    IF kWh = 0 THEN Raise("ZeroDivisionError")
    ELSE LET n == 100000 * (kWh - peak)
             q == n \div kWh
             r == n % kWh
         IN  Value(IF 2 * r > kWh \/ (2 * r = kWh /\ q % 2 = 1) THEN q + 1 ELSE q)

(***************************************************************************)
(* compare_power_costs.calculate_block_cost / calculate_ev_cost            *)
(***************************************************************************)
winter_low_rate  == <<1092, 297096>>     \* 0.1092297096
winter_high_rate == <<1418, 128200>>     \* 0.14181282
summer_low_rate  == <<1234, 294488>>     \* 0.1234294488
summer_high_rate == <<1602, 495120>>     \* 0.160249512
off_peak_rate    == <<710, 998688>>      \* 0.0710998688
on_peak_rate     == <<3466, 289504>>     \* 0.3466289504

BlockBoundary == 400

\* a crossing sample billed whole at the high rate
calculate_block_cost_no_split(dt, usage, usage_sum) ==
    LET summer   == dt.month \in {6, 7, 8, 9}
        low_rate == IF summer THEN summer_low_rate ELSE winter_low_rate
        high_rate == IF summer THEN summer_high_rate ELSE winter_high_rate
    IN  IF usage_sum + usage <= BlockBoundary THEN MulRate(usage, low_rate)
        ELSE MulRate(usage, high_rate)

\* a crossing sample whose second-block part is the whole sample
calculate_block_cost_whole_second(dt, usage, usage_sum) ==
    LET summer   == dt.month \in {6, 7, 8, 9}
        low_rate == IF summer THEN summer_low_rate ELSE winter_low_rate
        high_rate == IF summer THEN summer_high_rate ELSE winter_high_rate
    IN  IF usage_sum + usage <= BlockBoundary THEN MulRate(usage, low_rate)
        ELSE IF usage_sum < BlockBoundary
        THEN MoneyAdd(MulRate(BlockBoundary - usage_sum, low_rate), MulRate(usage, high_rate))
        ELSE MulRate(usage, high_rate)

calculate_block_cost(dt, usage, usage_sum) ==
    LET month_index == dt.month
        summer_months == {6, 7, 8, 9}
        low_rate  == IF month_index \in summer_months
                     THEN summer_low_rate ELSE winter_low_rate
        high_rate == IF month_index \in summer_months
                     THEN summer_high_rate ELSE winter_high_rate
    IN  IF usage_sum + usage <= BlockBoundary
        THEN MulRate(usage, low_rate)
        ELSE IF usage_sum < BlockBoundary
        THEN LET first_block_usage  == BlockBoundary - usage_sum
                 second_block_usage == usage - first_block_usage
             IN  MoneyAdd(MulRate(first_block_usage, low_rate),
                          MulRate(second_block_usage, high_rate))
        ELSE MulRate(usage, high_rate)

\* returns (cost, peak_hour)
calculate_ev_cost(dt, usage) ==
    LET peak_hour == is_peak_hour(dt)
        hour_rate == IF peak_hour THEN on_peak_rate ELSE off_peak_rate
    IN  <<MulRate(usage, hour_rate), peak_hour>>

(***************************************************************************)
(* compare_power_costs.many_month_usage_summary_from_hourly_entries        *)
(***************************************************************************)
\* f"{date_object.year}-{str(date_object.month).zfill(2)}"
zfill2(str, n) == IF n < 10 THEN "0" \o str ELSE str

\* the key without the year
MonthKey_month_only(dt) == zfill2(ToString(dt.month), dt.month)

MonthKey(dt) == ToString(dt.year) \o "-" \o zfill2(ToString(dt.month), dt.month)

NewMonthRecord ==
    [kWh |-> 0, block_cost |-> Zero, ev_cost |-> Zero, sum_peak_kWh |-> 0]

\* the hourly samples the input lists are drawn from: (datetime, usage)
Jan2_08     == DateTime(2024, 1, 2, 8, 0, 0, 0)    \* Tuesday, winter peak hour
Jan2_12     == DateTime(2024, 1, 2, 12, 0, 0, 0)   \* Tuesday, off-peak hour
Jan6_16     == DateTime(2024, 1, 6, 16, 0, 0, 0)   \* Saturday
May1_08     == DateTime(2024, 5, 1, 8, 0, 0, 0)    \* Wednesday in May
Jul5_16     == DateTime(2024, 7, 5, 16, 0, 0, 0)   \* Friday, summer peak hour
Jan2_09_25  == DateTime(2025, 1, 2, 9, 0, 0, 0)    \* Thursday, winter peak hour

Samples ==
    { <<Jan2_08, 5>>, <<Jan2_08, 395>>, <<Jan2_08, 400>>,
      <<Jan2_12, 0>>, <<Jan2_12, 10>>, <<Jan2_12, 344>>,
      <<Jan6_16, 10>>, <<May1_08, 5>>,
      <<Jul5_16, 0>>, <<Jul5_16, 10>>, <<Jul5_16, 395>>,
      <<Jan2_09_25, 10>> }

MaxEntries == 3

SeqsUpTo(S, n) == UNION { [1..k -> S] : k \in 0..n }

Init ==
    /\ hourly_entries \in SeqsUpTo(Samples, MaxEntries)
    /\ idx = 0
    /\ month_sums = <<>>
    /\ month_keys = <<>>
    /\ last = None
    /\ overall = None
    /\ fin_idx = 0
    /\ pc = "fold"
    /\ error = None
    /\ IdleFc
    /\ IdleCsv

\* lines 356-360: the month record after one sample is added
folded_record_peak_unconditional(rec, hour_usage, block_cost, ev_cost, peak_hour) ==
    [rec EXCEPT !.kWh = @ + hour_usage,
                !.block_cost = MoneyAdd(@, block_cost),
                !.ev_cost = MoneyAdd(@, ev_cost),
                !.sum_peak_kWh = @ + hour_usage]

folded_record(rec, hour_usage, block_cost, ev_cost, peak_hour) ==
    [rec EXCEPT !.kWh = @ + hour_usage,
                !.block_cost = MoneyAdd(@, block_cost),
                !.ev_cost = MoneyAdd(@, ev_cost),
                !.sum_peak_kWh = IF peak_hour THEN @ + hour_usage ELSE @]

\* lines 338-360: one iteration of the loop over hourly_entries
Fold ==
    /\ pc = "fold"
    /\ idx < Len(hourly_entries)
    /\ LET dt         == hourly_entries[idx + 1][1]
           hour_usage == hourly_entries[idx + 1][2]
           month_key  == MonthKey(dt)
           is_new     == month_key \notin DOMAIN month_sums
           sums0      == IF is_new THEN (month_key :> NewMonthRecord) @@ month_sums
                         ELSE month_sums
           rec        == sums0[month_key]
           block_cost == calculate_block_cost(dt, hour_usage, rec.kWh)
           ev         == calculate_ev_cost(dt, hour_usage)
           ev_cost    == ev[1]
           peak_hour  == ev[2]
           rec1       == folded_record(rec, hour_usage, block_cost, ev_cost, peak_hour)
       IN  /\ month_sums' = [sums0 EXCEPT ![month_key] = rec1]
           /\ month_keys' = IF is_new THEN Append(month_keys, month_key) ELSE month_keys
           /\ last' = [date_object |-> dt, hour_usage |-> hour_usage,
                       month_key |-> month_key, usage_sum |-> rec.kWh,
                       block_cost |-> block_cost, ev_cost |-> ev_cost,
                       peak_hour |-> peak_hour]
    /\ idx' = idx + 1
    /\ UNCHANGED <<hourly_entries, overall, fin_idx, pc, error, fcVars, csvVars>>

\* lines 362-365: the first loop is exhausted, the accumulators are zeroed
StartFinalize ==
    /\ pc = "fold"
    /\ idx = Len(hourly_entries)
    /\ overall' = [block_cost |-> Zero, ev_cost |-> Zero, kwh |-> 0, sum_peak_kwh |-> 0]
    /\ pc' = "finalize"
    /\ UNCHANGED <<hourly_entries, idx, month_sums, month_keys, last, fin_idx, error,
                   fcVars, csvVars>>

\* lines 367-378 for one month whose percentage could be computed
finalized_record(m_dict, pct) ==
    ("kWh" :> m_dict.kWh)
    @@ ("block_cost" :> Round3(m_dict.block_cost))
    @@ ("ev_cost" :> Round3(m_dict.ev_cost))
    @@ ("sum_peak_kWh" :> m_dict.sum_peak_kWh)
    @@ ("difference" :> RoundDifference(m_dict.block_cost, m_dict.ev_cost))
    @@ ("off_peak_%" :> pct)

\* lines 366-378: one iteration of the loop over month_sums.items()
FinalizeMonth ==
    /\ pc = "finalize"
    /\ fin_idx < Len(month_keys)
    /\ LET month  == month_keys[fin_idx + 1]
           m_dict == month_sums[month]
           pct    == off_peak_percent(m_dict.kWh, m_dict.sum_peak_kWh)
       IN  /\ ~pct.raised
           /\ month_sums' = [month_sums EXCEPT ![month] = finalized_record(m_dict, pct.value)]
           /\ overall' = [block_cost |-> MoneyAdd(overall.block_cost, m_dict.block_cost),
                          ev_cost |-> MoneyAdd(overall.ev_cost, m_dict.ev_cost),
                          kwh |-> overall.kwh + m_dict.kWh,
                          sum_peak_kwh |-> overall.sum_peak_kwh + m_dict.sum_peak_kWh]
    /\ fin_idx' = fin_idx + 1
    /\ UNCHANGED <<hourly_entries, idx, month_keys, last, pc, error, fcVars, csvVars>>

\* lines 367-370: "difference" is stored, then the division raises
FinalizeMonthRaises ==
    /\ pc = "finalize"
    /\ fin_idx < Len(month_keys)
    /\ LET month  == month_keys[fin_idx + 1]
           m_dict == month_sums[month]
           pct    == off_peak_percent(m_dict.kWh, m_dict.sum_peak_kWh)
       IN  /\ pct.raised
           /\ month_sums' = [month_sums EXCEPT ![month] =
                  m_dict @@ ("difference" :> RoundDifference(m_dict.block_cost, m_dict.ev_cost))]
           /\ error' = Raised(pct.exception)
    /\ pc' = "raised"
    /\ UNCHANGED <<hourly_entries, idx, month_keys, last, overall, fin_idx, fcVars, csvVars>>

\* lines 380-389: the "SUMMARY" record
summary_record_swapped(o, pct) ==
    ("kWh" :> o.kwh)
    @@ ("block_cost" :> Round3(o.block_cost))
    @@ ("ev_cost" :> Round3(o.ev_cost))
    @@ ("difference" :> RoundDifference(o.ev_cost, o.block_cost))
    @@ ("sum_peak_kWh" :> o.sum_peak_kwh)
    @@ ("off_peak_%" :> pct)

summary_record(o, pct) ==
    ("kWh" :> o.kwh)
    @@ ("block_cost" :> Round3(o.block_cost))
    @@ ("ev_cost" :> Round3(o.ev_cost))
    @@ ("difference" :> RoundDifference(o.block_cost, o.ev_cost))
    @@ ("sum_peak_kWh" :> o.sum_peak_kwh)
    @@ ("off_peak_%" :> pct)

\* lines 380-391: the second loop is exhausted, SUMMARY is stored, return
Summary ==
    /\ pc = "finalize"
    /\ fin_idx = Len(month_keys)
    /\ LET pct == off_peak_percent(overall.kwh, overall.sum_peak_kwh)
       IN  /\ ~pct.raised
           /\ month_sums' = ("SUMMARY" :> summary_record(overall, pct.value)) @@ month_sums
    /\ pc' = "returned"
    /\ UNCHANGED <<hourly_entries, idx, month_keys, last, overall, fin_idx, error,
                   fcVars, csvVars>>

\* lines 380-388: the division of the SUMMARY percentage raises
SummaryRaises ==
    /\ pc = "finalize"
    /\ fin_idx = Len(month_keys)
    /\ LET pct == off_peak_percent(overall.kwh, overall.sum_peak_kwh)
       IN  /\ pct.raised
           /\ error' = Raised(pct.exception)
    /\ pc' = "raised"
    /\ UNCHANGED <<hourly_entries, idx, month_sums, month_keys, last, overall, fin_idx,
                   fcVars, csvVars>>

Next == Fold \/ StartFinalize \/ FinalizeMonth \/ FinalizeMonthRaises \/ Summary \/ SummaryRaises

Spec == Init /\ [][Next]_vars

(***************************************************************************)
(* compare_power_costs.get_hourly_usage_entries_from_rmp_csvs and          *)
(* hourly_usage_entries_from_rmp_csv_file.  A file is its name and its     *)
(* data rows (the header row is skipped by the reader loop); a row is the  *)
(* tuple of its cells, each cell a string.                                 *)
(***************************************************************************)
\* datetime.strptime(csv_file.name, "%Y-%m-%d.csv")
strptime(name) ==
    CASE name = "2024-01-02.csv" -> Value(DateTime(2024, 1, 2, 0, 0, 0, 0))
      [] name = "2024-01-03.csv" -> Value(DateTime(2024, 1, 3, 0, 0, 0, 0))
      [] name = "2024-01-04.csv" -> Value(DateTime(2024, 1, 4, 0, 0, 0, 0))
      [] name = "2024-01-05.csv" -> Value(DateTime(2024, 1, 5, 0, 0, 0, 0))
      [] name = "2024-01-08.csv" -> Value(DateTime(2024, 1, 8, 0, 0, 0, 0))
      [] name = "2024-07-05.csv" -> Value(DateTime(2024, 7, 5, 0, 0, 0, 0))
      [] OTHER -> Raise("ValueError")       \* "notes.csv", "2024-13-01.csv"

\* int(cell.split(":")[0])
int_before_colon(cell) ==
    CASE cell = "0:00"  -> Value(0)
      [] cell = "1:00"  -> Value(1)
      [] cell = "2:00"  -> Value(2)
      [] cell = "13:00" -> Value(13)
      [] cell = "24:00" -> Value(24)
      [] cell = "25:00" -> Value(25)
      [] OTHER -> Raise("ValueError")       \* "noon"

\* float(cell)
float_of(cell) ==
    CASE cell = "0"  -> Value(0)
      [] cell = "5"  -> Value(5)
      [] cell = "10" -> Value(10)
      [] OTHER -> Raise("ValueError")       \* "abc", ""

\* datetime(year, month, day, hour): the hour must be in 0..23
datetime_at_hour(date, hour) ==
    IF hour \in 0..23 THEN Value([date EXCEPT !.hour = hour]) ELSE Raise("ValueError")

\* lines 119-127 for one data row
usage_entry_of_row(date, row) ==
    LET label == int_before_colon(row[1]) IN
    IF label.raised THEN label
    ELSE LET usage_datetime == datetime_at_hour(date, label.value - 1) IN
         IF usage_datetime.raised THEN usage_datetime
         ELSE IF Len(row) < 2 THEN Raise("IndexError")
         ELSE LET hour_kwh_usage == float_of(row[2]) IN
              IF hour_kwh_usage.raised THEN hour_kwh_usage
              ELSE Value(<<usage_datetime.value, hour_kwh_usage.value>>)

\* lines 109-128: the entries of the rows, or the exception of the first
\* row that raises
RECURSIVE hourly_usage_entries_from_rmp_csv_file(_, _)
hourly_usage_entries_from_rmp_csv_file(date, rows) ==
    IF rows = <<>> THEN Value(<<>>)
    ELSE LET first == usage_entry_of_row(date, Head(rows)) IN
         IF first.raised THEN first
         ELSE LET rest == hourly_usage_entries_from_rmp_csv_file(date, Tail(rows)) IN
              IF rest.raised THEN rest ELSE Value(<<first.value>> \o rest.value)

\* lines 435-438: the body of the try block for one file
entries_of_file(file) ==
    LET date == strptime(file.name) IN
    IF date.raised THEN date
    ELSE hourly_usage_entries_from_rmp_csv_file(date.value, file.rows)

File(name, rows) == [name |-> name, rows |-> rows]

\* the files the input lists are drawn from
CsvFiles ==
    { File("2024-01-02.csv", << <<"1:00", "5">>, <<"13:00", "10">> >>),
      File("2024-07-05.csv", << <<"24:00", "10">> >>),
      File("notes.csv",      << <<"1:00", "5">> >>),
      File("2024-13-01.csv", << <<"1:00", "5">> >>),
      File("2024-01-03.csv", << <<"1:00", "5">>, <<"2:00", "abc">> >>),
      File("2024-01-04.csv", << <<"noon", "5">> >>),
      File("2024-01-05.csv", << <<"0:00", "5">> >>),
      File("2024-01-08.csv", << <<"1:00">> >>) }

MaxFiles == 3

InitCsv ==
    /\ csv_files \in SeqsUpTo(CsvFiles, MaxFiles)
    /\ file_idx = 0
    /\ hourly_usage_entries = <<>>
    /\ warnings = <<>>
    /\ csv_pc = "loop"
    /\ csv_error = None
    /\ IdleFc
    /\ IdleAgg

\* lines 433-439: the try block completes, the file's entries are appended
CsvFileRead ==
    /\ csv_pc = "loop"
    /\ file_idx < Len(csv_files)
    /\ LET got == entries_of_file(csv_files[file_idx + 1])
       IN  /\ ~got.raised
           /\ hourly_usage_entries' = hourly_usage_entries \o got.value
    /\ file_idx' = file_idx + 1
    /\ UNCHANGED <<csv_files, warnings, csv_pc, csv_error, fcVars, aggVars>>

\* lines 440-444: a ValueError raised anywhere in the try block is caught,
\* the warning is logged and the loop continues with the next file
CsvFileWarned ==
    /\ csv_pc = "loop"
    /\ file_idx < Len(csv_files)
    /\ LET got == entries_of_file(csv_files[file_idx + 1])
       IN  /\ got.raised
           /\ got.exception = "ValueError"
           /\ warnings' = Append(warnings, csv_files[file_idx + 1].name)
    /\ file_idx' = file_idx + 1
    /\ UNCHANGED <<csv_files, hourly_usage_entries, csv_pc, csv_error, fcVars, aggVars>>

\* any other exception of the try block leaves the function
CsvFileRaises ==
    /\ csv_pc = "loop"
    /\ file_idx < Len(csv_files)
    /\ LET got == entries_of_file(csv_files[file_idx + 1])
       IN  /\ got.raised
           /\ got.exception # "ValueError"
           /\ csv_error' = Raised(got.exception)
    /\ csv_pc' = "raised"
    /\ UNCHANGED <<csv_files, file_idx, hourly_usage_entries, warnings, fcVars, aggVars>>

\* line 445
CsvReturn ==
    /\ csv_pc = "loop"
    /\ file_idx = Len(csv_files)
    /\ csv_pc' = "returned"
    /\ UNCHANGED <<csv_files, file_idx, hourly_usage_entries, warnings, csv_error,
                   fcVars, aggVars>>

NextCsv == CsvFileRead \/ CsvFileWarned \/ CsvFileRaises \/ CsvReturn

SpecCsv == InitCsv /\ [][NextCsv]_vars

(***************************************************************************)
(* Properties of is_peak_hour and find_next_peak_change (SpecFc).          *)
(***************************************************************************)
FcEntered == fc_pc \in {"loop", "returned", "raised"}

Weekend(dt) == Weekday(dt) \in {5, 6}

\* C3: is_peak_hour is false on every Saturday and Sunday and on every date
\* of the holiday set, whatever the hour and the month.
C3_OffPeakOnWeekendAndHoliday ==
    FcEntered /\ (Weekend(date_object) \/ RockyMountainPowerHolidays(date_object))
        => initial_peak = FALSE

C3_Witness ==
    /\ FcEntered
    /\ RockyMountainPowerHolidays(date_object)
    /\ ~Weekend(date_object)
    /\ date_object.month = 7 /\ date_object.hour = 16
    /\ initial_peak = FALSE

PeakDay(dt) == ~Weekend(dt) /\ ~RockyMountainPowerHolidays(dt)

\* C4 as stated: on a non-holiday weekday the peak hours are 15..19 in the
\* months 6..9 and 8, 9, 15..19 in every other month (May included).
C4_Original ==
    FcEntered /\ PeakDay(date_object) =>
        IF date_object.month \in {6, 7, 8, 9}
        THEN initial_peak = (date_object.hour \in {15, 16, 17, 18, 19})
        ELSE initial_peak = (date_object.hour \in {8, 9, 15, 16, 17, 18, 19})

\* C4 (amended): on a non-holiday weekday the peak hours are 15..19 in the
\* months 5..9 and 8, 9, 15..19 in the months 1..4 and 10..12.
C4_PeakHoursBySeason ==
    FcEntered /\ PeakDay(date_object) =>
        IF date_object.month \in {5, 6, 7, 8, 9}
        THEN initial_peak = (date_object.hour \in {15, 16, 17, 18, 19})
        ELSE initial_peak = (date_object.hour \in {8, 9, 15, 16, 17, 18, 19})

C4_Witness ==
    /\ FcEntered /\ PeakDay(date_object)
    /\ date_object.month = 5 /\ date_object.hour = 8
    /\ initial_peak = FALSE

FcFinished == fc_pc \in {"returned", "raised"}

OneHour == [days |-> 0, seconds |-> 3600, microseconds |-> 0]

\* C7: called hour-aligned at the start of the last peak hour of a peak
\* window (the next hour is off-peak), find_next_peak_change returns a
\* duration of exactly one hour.
C7_AlignedLastPeakHourReturnsOneHour ==
    ( /\ FcFinished
      /\ HourAligned(date_object)
      /\ is_peak_hour(date_object)
      /\ ~is_peak_hour(AddHour(date_object)) )
    => (fc_pc = "returned" /\ fc_result = OneHour)

\* the hour boundaries after dt: <<floor(dt) + 1h, ..., floor(dt) + n h>>
RECURSIVE BoundariesFrom(_, _)
BoundariesFrom(t, n) ==
    IF n = 0 THEN <<>> ELSE <<AddHour(t)>> \o BoundariesFrom(AddHour(t), n - 1)

MaxGapHours == 100

PositiveDelta(td) ==
    td.days >= 0 /\ (td.days > 0 \/ td.seconds > 0 \/ td.microseconds > 0)

NextChangeIs(dt, res) ==
    LET bs == BoundariesFrom(ReplaceToHour(dt), MaxGapHours) IN
    \E n \in 1..MaxGapHours :
        /\ is_peak_hour(bs[n]) # is_peak_hour(dt)
        /\ \A k \in 1..(n - 1) : is_peak_hour(bs[k]) = is_peak_hour(dt)
        /\ res = TimeDelta(bs[n], dt)
        /\ PositiveDelta(res)

\* whole hours from the hour boundary a to the hour boundary b
HoursBetween(a, b) == (ToOrdinal(b) - ToOrdinal(a)) * 24 + b.hour - a.hour

\* C10: from every datetime that is not hour-aligned find_next_peak_change
\* terminates (it never raises, the loop variable stays within MaxGapHours
\* hour boundaries of the start and a step is always enabled until the
\* return) and returns B - from_timestamp, B the earliest hour boundary
\* strictly after from_timestamp whose peak status differs from the initial
\* one; the duration is strictly positive.
C10_UnalignedReturnsNextChange ==
    FcEntered /\ ~HourAligned(date_object) =>
        /\ fc_pc # "raised"
        /\ fc_pc = "loop" =>
              /\ iter_datetime # Unbound
              /\ HoursBetween(ReplaceToHour(date_object), iter_datetime) \in 1..MaxGapHours
              /\ ENABLED NextFc
        /\ fc_pc = "returned" => NextChangeIs(date_object, fc_result)

C10_Witness ==
    /\ fc_pc = "returned"
    /\ ~HourAligned(date_object)
    /\ fc_result.days >= 3
    /\ NextChangeIs(date_object, fc_result)

(***************************************************************************)
(* Properties of the tariff functions and the aggregator (Spec).           *)
(***************************************************************************)
Folded == last # None

\* C1: calculate_block_cost bills by three cases against the 400 kWh
\* boundary: usage * low_rate when usage_sum + usage <= 400; the part up to
\* 400 at low_rate and the rest at high_rate when usage_sum < 400; else
\* usage * high_rate; the rates are the summer pair in months 6..9 and the
\* winter pair otherwise.
C1_BlockCostThreeCases ==
    Folded =>
        LET u    == last.hour_usage
            s    == last.usage_sum
            low  == IF last.date_object.month \in 6..9
                    THEN summer_low_rate ELSE winter_low_rate
            high == IF last.date_object.month \in 6..9
                    THEN summer_high_rate ELSE winter_high_rate
        IN  /\ s + u <= 400 => last.block_cost = MulRate(u, low)
            /\ s + u > 400 /\ s < 400 =>
                 last.block_cost =
                     MoneyAdd(MulRate(400 - s, low), MulRate(u - (400 - s), high))
            /\ s >= 400 => last.block_cost = MulRate(u, high)

\* usage_sum = 395, usage = 10 in January costs 5 * low + 5 * high (winter)
C1_Witness ==
    /\ Folded
    /\ last.usage_sum = 395 /\ last.hour_usage = 10
    /\ last.date_object.month = 1
    /\ last.block_cost = MoneyAdd(MulRate(5, winter_low_rate), MulRate(5, winter_high_rate))

\* the block cost the loop accumulates for month `key` over the list `seq`
RECURSIVE MonthBlockCost(_, _, _, _)
MonthBlockCost(seq, key, kWh, cost) ==
    IF seq = <<>> THEN cost
    ELSE LET dt == Head(seq)[1]
             u  == Head(seq)[2]
         IN  IF MonthKey(dt) = key
             THEN MonthBlockCost(Tail(seq), key, kWh + u,
                                 MoneyAdd(cost, calculate_block_cost(dt, u, kWh)))
             ELSE MonthBlockCost(Tail(seq), key, kWh, cost)

Reordered(seq, p) == [i \in 1..Len(seq) |-> seq[p[i]]]

AllFolded == pc \in {"finalize", "returned", "raised"}

MonthFinalized(key) == "off_peak_%" \in DOMAIN month_sums[key]

\* C2: the block cost of a month is the same for every ordering of the
\* samples: what the run accumulated when the last sample is folded, and
\* what it returns after rounding, equals what any permutation of the
\* input list gives for that month.
C2_BlockCostOrderInvariant ==
    (pc = "finalize" /\ fin_idx = 0) \/ pc = "returned" =>
        \A i \in 1..Len(month_keys) :
            \A p \in Permutations(1..Len(hourly_entries)) :
                LET key   == month_keys[i]
                    other == MonthBlockCost(Reordered(hourly_entries, p), key, 0, Zero)
                IN  month_sums[key].block_cost =
                        IF MonthFinalized(key) THEN Round3(other) ELSE other

\* three January samples that cross the boundary, folded to the end
C2_Witness ==
    /\ pc = "returned"
    /\ Len(hourly_entries) = 3
    /\ month_keys = <<"2024-01">>
    /\ hourly_entries[1][2] = 395 /\ hourly_entries[2][2] = 10 /\ hourly_entries[3][2] = 5
    /\ month_sums["2024-01"].block_cost =
           Round3(MoneyAdd(MulRate(400, winter_low_rate), MulRate(10, winter_high_rate)))

\* the usage of the first n entries that belong to month `key` and were
\* classified as peak
RECURSIVE PeakUsage(_, _)
PeakUsage(n, key) ==
    IF n = 0 THEN 0
    ELSE LET dt == hourly_entries[n][1]
             u  == hourly_entries[n][2]
         IN  PeakUsage(n - 1, key)
             + (IF MonthKey(dt) = key /\ is_peak_hour(dt) THEN u ELSE 0)

\* C5: after any prefix of the samples has been folded every month record
\* has 0 <= sum_peak_kWh <= kWh, and sum_peak_kWh is the usage of exactly
\* the folded samples of that month that is_peak_hour classified as peak.
C5_PeakWithinTotal ==
    \A i \in 1..Len(month_keys) :
        LET rec == month_sums[month_keys[i]] IN
        /\ 0 <= rec.sum_peak_kWh
        /\ rec.sum_peak_kWh <= rec.kWh
        /\ rec.sum_peak_kWh = PeakUsage(idx, month_keys[i])

C5_Witness ==
    /\ pc = "fold" /\ idx = 2 /\ Len(hourly_entries) = 3
    /\ month_keys = <<"2024-01">>
    /\ month_sums["2024-01"].sum_peak_kWh = 5
    /\ month_sums["2024-01"].kWh = 15

SummaryFields == {"kWh", "block_cost", "ev_cost", "sum_peak_kWh", "difference", "off_peak_%"}

\* C8: when all samples fall in one calendar month with positive total kWh,
\* the "SUMMARY" record equals that month's record in all six fields.
C8_SingleMonthSummaryEqualsMonth ==
    pc = "returned" /\ Len(month_keys) = 1 =>
        /\ DOMAIN month_sums["SUMMARY"] = SummaryFields
        /\ DOMAIN month_sums[month_keys[1]] = SummaryFields
        /\ \A f \in SummaryFields : month_sums["SUMMARY"][f] = month_sums[month_keys[1]][f]

\* January 2024 with 744 kWh: 400 at the winter low rate, 344 at the high
C8_Witness ==
    /\ pc = "returned"
    /\ month_keys = <<"2024-01">>
    /\ month_sums["2024-01"].kWh = 744
    /\ month_sums["SUMMARY"].kWh = 744
    /\ month_sums["SUMMARY"].block_cost =
           Round3(MoneyAdd(MulRate(400, winter_low_rate), MulRate(344, winter_high_rate)))
    /\ month_sums["SUMMARY"].difference # 0

(***************************************************************************)
(* Properties of the primary ingestion path (SpecCsv).                     *)
(***************************************************************************)
\* a data row whose usage is not numeric or whose time label yields no
\* valid hour
MalformedRow(row) ==
    \/ int_before_colon(row[1]).raised
    \/ ~int_before_colon(row[1]).raised /\ (int_before_colon(row[1]).value - 1) \notin 0..23
    \/ Len(row) >= 2 /\ float_of(row[2]).raised

CorrectlyNamedMalformed(file) ==
    /\ ~strptime(file.name).raised
    /\ \E i \in 1..Len(file.rows) : MalformedRow(file.rows[i])

\* C9: a correctly named file with a malformed data row makes
\* get_hourly_usage_entries_from_rmp_csvs fail hard: once the loop has
\* reached such a file no warning stands in for the failure and the
\* function does not go on to return a result.
C9_MalformedRowAborts ==
    \A i \in 1..Len(csv_files) :
        CorrectlyNamedMalformed(csv_files[i]) =>
            /\ csv_pc # "returned"
            /\ file_idx >= i => csv_pc = "raised"

(***************************************************************************)
(* Independence of the month records (Spec).                               *)
(***************************************************************************)
SameMonth(a, b) == a.year = b.year /\ a.month = b.month

\* the first n entries that fall in the calendar month of dt, in order
RECURSIVE MonthSubsequence(_, _)
MonthSubsequence(n, dt) ==
    IF n = 0 THEN <<>>
    ELSE IF SameMonth(hourly_entries[n][1], dt)
         THEN Append(MonthSubsequence(n - 1, dt), hourly_entries[n])
         ELSE MonthSubsequence(n - 1, dt)

\* the record the first loop builds when it is given `seq` alone
RECURSIVE RecordAlone(_, _)
RecordAlone(seq, rec) ==
    IF seq = <<>> THEN rec
    ELSE LET dt == Head(seq)[1]
             u  == Head(seq)[2]
             ev == calculate_ev_cost(dt, u)
         IN  RecordAlone(Tail(seq),
                         folded_record(rec, u, calculate_block_cost(dt, u, rec.kWh),
                                       ev[1], ev[2]))

\* the finalized record of a month given its samples alone
FinalRecordAlone(seq) ==
    LET rec == RecordAlone(seq, NewMonthRecord)
    IN  finalized_record(rec, off_peak_percent(rec.kWh, rec.sum_peak_kWh).value)

OthersUnchanged(key) ==
    /\ DOMAIN month_sums' = DOMAIN month_sums \cup {key}
    /\ \A k \in DOMAIN month_sums : k # key => month_sums'[k] = month_sums[k]

\* C11: folding one sample of month M changes only the record keyed by M's
\* "YYYY-MM" (and so does finalizing month M); after every step each month's
\* record is what its own samples alone give in their encounter order,
\* however samples of other months, the same month number of another year
\* included, are interleaved with them.
C11_MonthsIndependent ==
    [][ /\ idx' = idx + 1 =>
            /\ OthersUnchanged(MonthKey(hourly_entries[idx'][1]))
            /\ \A i \in 1..idx' :
                   LET dt == hourly_entries[i][1] IN
                   /\ MonthKey(dt) \in DOMAIN month_sums'
                   /\ month_sums'[MonthKey(dt)] =
                          RecordAlone(MonthSubsequence(idx', dt), NewMonthRecord)
        /\ fin_idx' = fin_idx + 1 =>
            /\ OthersUnchanged(month_keys[fin_idx'])
            /\ \A i \in 1..Len(hourly_entries) :
                   LET dt == hourly_entries[i][1] IN
                   MonthKey(dt) = month_keys[fin_idx'] =>
                       month_sums'[MonthKey(dt)] =
                           FinalRecordAlone(MonthSubsequence(Len(hourly_entries), dt))
      ]_vars

\* January 2024 samples with a January 2025 sample folded between them
C11_Witness ==
    /\ pc = "returned"
    /\ Len(hourly_entries) = 3
    /\ hourly_entries[1] = <<Jan2_08, 395>>
    /\ hourly_entries[2] = <<Jan2_09_25, 10>>
    /\ hourly_entries[3] = <<Jan2_12, 10>>
    /\ month_keys = <<"2024-01", "2025-01">>
    /\ month_sums["2024-01"].kWh = 405
    /\ month_sums["2025-01"].kWh = 10
    /\ month_sums["2024-01"].block_cost =
           Round3(MoneyAdd(MulRate(400, winter_low_rate), MulRate(5, winter_high_rate)))

=============================================================================
